---- MODULE Spec2Model ----
(***************************************************************************)
(* Behavioural-signal pipeline of AutiCare (cv/AutiCare):                  *)
(* AutismScreeningModel.process_video and BehavioralMetrics.               *)
(*                                                                         *)
(* Units.  Iris and gaze coordinates are counted in 1/200 of the frame     *)
(* (0.4 is 80, 0.15 is 30), so that the midpoint of two even iris          *)
(* coordinates is an integer.  fps is counted in tenths (25.0 is 250).     *)
(* Metric values, which the code rounds to one decimal, are counted in     *)
(* tenths (75.0 is 750).  Confidence is counted in hundredths.             *)
(***************************************************************************)
EXTENDS Integers, Sequences, FiniteSets, TLC

VARIABLES
    pc,                  \* position of the caller / of process_video
    fps,                 \* self.fps (tenths)
    frame_count,         \* self.frame_count
    previous_gaze,       \* self.previous_gaze
    captured,            \* frames the capture delivers for the current video
    len_frames,          \* len(frames) in process_video
    idx,                 \* loop index of process_video, then of calculate_response_latency
    detections,          \* detector output of every frame visited so far
    gazes,               \* current_gaze of every frame visited so far (None: no face)
    signals,             \* what each visited frame added to the four counters
    eye_contact_frames,  \* local counters of process_video
    attention_shifts,
    gestures,
    social_gaze_frames,
    metrics,             \* the BehavioralMetrics returned (None before)
    report,              \* the report built from it (None before)
    calls,               \* process_video calls made on this instance
    lastRun,             \* a video whose frames are known beforehand: the previous
                         \* run kept by a caller, or an upload of a batch (None: any)
    error,               \* the exception that reached the caller (None: none)
    results,             \* the results list of batch_screen
    detectors,           \* the detector attributes set by __init__
    files,               \* the files on disk: a set of [path, content]
    requests,            \* the requests the server has received and their stage
    running              \* the request whose handler holds the event loop (0: none)

vars == <<pc, fps, frame_count, previous_gaze, captured, len_frames, idx,
          detections, gazes, signals, eye_contact_frames, attention_shifts,
          gestures, social_gaze_frames, metrics, report, calls, lastRun,
          error, results, detectors, files, requests, running>>

\* What lies outside process_video and its caller's locals.
env == << detectors, files, requests, running >>

None == <<>>

-----------------------------------------------------------------------------
(* Bounds of the model *)

MaxCaptured == 2
MaxCalls == 2

\* Capture rates (tenths of a frame per second): a negative rate from broken
\* metadata (-0.3), unknown rate, 0.3, 10, 25.
FpsValues == {-3, 0, 3, 100, 250}

\* Normalised eye centres (x + ex + ew/2)/width, (y + ey + eh/2)/height.
EyeLists ==
    { << <<100, 100>> >>,
      << <<136, 148>> >>,
      << <<190, 190>>, <<190, 190>> >>,
      << <<100, 100>>, <<190, 10>>, <<136, 148>> >> }

\* cv2.cvtColor or detectMultiScale raises cv2.error on the frame.
DetectorFault == [face |-> FALSE, eyes |-> <<>>, fault |-> TRUE]

\* What the two cascades return for one frame.
FrameInputs ==
    { [face |-> FALSE, eyes |-> <<>>, fault |-> FALSE],
      [face |-> TRUE, eyes |-> <<>>, fault |-> FALSE],
      DetectorFault }
    \cup { [face |-> TRUE, eyes |-> e, fault |-> FALSE] : e \in EyeLists }

\* Outcomes of np.random.uniform(0.35, 0.65) x np.random.uniform(0.3, 0.7).
RandomIris == { <<100, 100>>, <<70, 140>> }

\* Outcomes of np.random.random(), in hundredths.
RandomUnit == {0, 70, 99}

-----------------------------------------------------------------------------
(* Program constants *)

eye_contact_baseline == 750
attention_shifts_baseline == 80
gesture_frequency_baseline == 60
social_gaze_baseline == 600
response_latency_baseline == 15
total_factors == 5
DefaultFps == 300
DefaultIris == <<100, 100>>
DefaultLatency == 30

\* The attributes __init__ sets for the MediaPipe components.
NewDetectors ==
    [ use_tasks_api |-> FALSE, face_landmarker |-> None,
      hands_detector |-> None, pose_detector |-> None ]

-----------------------------------------------------------------------------
(* The file system *)

\* open(path, "w") and writing c: the file exists with content c.
Write(fs, path, c) ==
    { f \in fs : f.path # path } \cup { [ path |-> path, content |-> c ] }

\* path.unlink() when path.exists()
Unlink(fs, path) == { f \in fs : f.path # path }

Exists(fs, path) == \E f \in fs : f.path = path

-----------------------------------------------------------------------------
(* Arithmetic helpers *)

Max(a, b) == IF a >= b THEN a ELSE b
Min(a, b) == IF a <= b THEN a ELSE b

\* Python int(): truncation towards zero of n/d, d > 0.
IntTrunc(n, d) == IF n >= 0 THEN n \div d ELSE -((-n) \div d)

\* Python round(n/d) to the nearest integer, ties to even, d > 0.
RoundHalfEven(n, d) ==
    LET f == n \div d
        r == n % d
    IN  IF 2 * r < d THEN f
        ELSE IF 2 * r > d THEN f + 1
        ELSE IF f % 2 = 0 THEN f ELSE f + 1

\* round(n/d, 1) in tenths, for any d # 0.
Round1(n, d) ==
    IF d > 0 THEN RoundHalfEven(10 * n, d) ELSE RoundHalfEven(-10 * n, -d)

\* np.clip(v, 0.2, 0.8)
Clip(v) == Max(40, Min(160, v))

-----------------------------------------------------------------------------
(* preprocess_video *)

FrameSkip(f) == Max(1, IntTrunc(f, 100))

\* Number of captured indices 0..n-1 that are multiples of skip.
SampledCount(n, skip) == (n + skip - 1) \div skip

\* The capture indices 0..n-1 in the order cap.read() delivers them.
Captured(n) == [ i \in 1..n |-> i - 1 ]

\* Variant: the kept frames come out last first.
preprocess_video_reversed(n, f) ==
    LET kept == SelectSeq(Captured(n), LAMBDA frame_idx : frame_idx % FrameSkip(f) = 0)
    IN  [ i \in 1..Len(kept) |-> kept[Len(kept) + 1 - i] ]

\* The list frames that preprocess_video returns, each frame named by its
\* capture index.
preprocess_video(n, f) ==
    SelectSeq(Captured(n), LAMBDA frame_idx : frame_idx % FrameSkip(f) = 0)

-----------------------------------------------------------------------------
(* Per-frame classification *)

\* The mock landmark list of process_video: the pair (landmark 468, landmark 473).
\* left, right: the random draws used when the eye cascade finds nothing.
\* Variant: a frame without a face gets the random landmarks too.
LandmarksAlways(det, left, right) ==
    IF det.face /\ Len(det.eyes) > 0
    THEN LET eye_count == Min(2, Len(det.eyes))
             c(i) == <<Clip(det.eyes[i][1]), Clip(det.eyes[i][2])>>
         IN  << c(1), IF eye_count >= 2 THEN c(2) ELSE DefaultIris >>
    ELSE << left, right >>

Landmarks(det, left, right) ==
    IF ~det.face THEN None
    ELSE IF Len(det.eyes) > 0
    THEN LET eye_count == Min(2, Len(det.eyes))
             c(i) == <<Clip(det.eyes[i][1]), Clip(det.eyes[i][2])>>
         IN  << c(1), IF eye_count >= 2 THEN c(2) ELSE DefaultIris >>
    ELSE << left, right >>

Gaze(lm) == << (lm[1][1] + lm[2][1]) \div 2, (lm[1][2] + lm[2][2]) \div 2 >>

\* Variant: a gaze point on the border of the centre box counts as eye contact.
detect_eye_contact_inclusive(lm) ==
    IF lm = None THEN FALSE
    ELSE LET g == Gaze(lm)
         IN  (80 <= g[1] /\ g[1] <= 120) /\ (60 <= g[2] /\ g[2] <= 140)

detect_eye_contact(lm) ==
    IF lm = None THEN FALSE
    ELSE LET g == Gaze(lm)
         IN  (80 < g[1] /\ g[1] < 120) /\ (60 < g[2] /\ g[2] < 140)

\* Variant: a mean iris height of exactly 0.55 counts as social gaze.
calculate_social_gaze_inclusive(lm) ==
    IF lm = None THEN FALSE
    ELSE Gaze(lm)[2] <= 110

calculate_social_gaze(lm) ==
    IF lm = None THEN FALSE
    ELSE Gaze(lm)[2] < 110

\* Variant: a movement of exactly 0.15 counts as a shift.
detect_attention_shift_inclusive(prev, current_gaze) ==
    IF prev = None THEN << FALSE, current_gaze >>
    ELSE LET dx == current_gaze[1] - prev[1]
             dy == current_gaze[2] - prev[2]
         IN  << dx * dx + dy * dy >= 30 * 30, current_gaze >>

\* Variant: previous_gaze is replaced only when a shift is detected.
detect_attention_shift_sticky(prev, current_gaze) ==
    IF prev = None THEN << FALSE, current_gaze >>
    ELSE LET dx == current_gaze[1] - prev[1]
             dy == current_gaze[2] - prev[2]
             shift_detected == dx * dx + dy * dy > 30 * 30
         IN  << shift_detected, IF shift_detected THEN current_gaze ELSE prev >>

\* detect_attention_shift: <<shift_detected, new previous_gaze>>
detect_attention_shift(prev, current_gaze) ==
    IF prev = None THEN << FALSE, current_gaze >>
    ELSE LET dx == current_gaze[1] - prev[1]
             dy == current_gaze[2] - prev[2]
         IN  << dx * dx + dy * dy > 30 * 30, current_gaze >>

\* The mock hand detection: np.random.random() > 0.7
MockGesture(u) == u > 70

-----------------------------------------------------------------------------
(* Temporal aggregation (process_video, after the frame loop) *)

\* Variant: the duration is len(frames) / (fps * 60) whatever the sign of fps.
VideoDurationUnguarded(n, f) == << n, 6 * f >>

\* video_duration_minutes as a fraction <<numerator, denominator>> of a minute.
VideoDuration(n, f) ==
    LET raw == IF f > 0 THEN << n, 6 * f >> ELSE << 0, 1 >>
    IN  IF raw[1] <= 0 THEN << 1, 1000000 >> ELSE raw

PerMinute(count, dur) == Round1(count * dur[2], dur[1])

Percentage(count, n) == Round1(count * 100, n)

\* len(frames[:int(self.fps * 5)])
LatencyWindow(n, f) ==
    LET w == IntTrunc(f * 5, 10)
    IN  IF w >= 0 THEN Min(n, w) ELSE Max(0, n + w)

\* round(idx / self.fps, 1)
LatencyAt(i, f) == Round1(i * 10, f)

BehavioralMetrics(ec, as, gf, sg, rl) ==
    [ eye_contact_duration |-> ec,
      attention_shifts     |-> as,
      gesture_frequency    |-> gf,
      social_gaze          |-> sg,
      response_latency     |-> rl ]

-----------------------------------------------------------------------------
(* BehavioralMetrics.calculate_risk_score and to_dict *)

B2N(b) == IF b THEN 1 ELSE 0

\* Variant: the attention-shift factor is counted at the threshold itself.
RiskFactorsAtThreshold(m) ==
      B2N(m.eye_contact_duration < eye_contact_baseline)
    + B2N(m.attention_shifts * 10 >= attention_shifts_baseline * 13)
    + B2N(m.gesture_frequency * 10 < gesture_frequency_baseline * 7)
    + B2N(m.social_gaze < social_gaze_baseline)
    + B2N(m.response_latency * 10 > response_latency_baseline * 15)

\* Variant: eye contact equal to its baseline counts as a risk factor.
RiskFactorsAtBaseline(m) ==
      B2N(m.eye_contact_duration <= eye_contact_baseline)
    + B2N(m.attention_shifts * 10 > attention_shifts_baseline * 13)
    + B2N(m.gesture_frequency * 10 < gesture_frequency_baseline * 7)
    + B2N(m.social_gaze < social_gaze_baseline)
    + B2N(m.response_latency * 10 > response_latency_baseline * 15)

RiskFactors(m) ==
      B2N(m.eye_contact_duration < eye_contact_baseline)
    + B2N(m.attention_shifts * 10 > attention_shifts_baseline * 13)
    + B2N(m.gesture_frequency * 10 < gesture_frequency_baseline * 7)
    + B2N(m.social_gaze < social_gaze_baseline)
    + B2N(m.response_latency * 10 > response_latency_baseline * 15)

RiskPercentage(k) == (k * 100) \div total_factors

\* Variant: 60 percent still falls in the Medium branch.
ClassifyInclusive(risk_percentage) ==
    IF risk_percentage < 30 THEN << "Low Risk", 85 >>
    ELSE IF risk_percentage <= 60 THEN << "Medium Risk", 75 >>
    ELSE << "High Risk", 80 >>

Classify(risk_percentage) ==
    IF risk_percentage < 30 THEN << "Low Risk", 85 >>
    ELSE IF risk_percentage < 60 THEN << "Medium Risk", 75 >>
    ELSE << "High Risk", 80 >>

calculate_risk_score(m) == Classify(RiskPercentage(RiskFactors(m)))

\* Variant: a value equal to its baseline is tagged below_baseline.
to_dict_at_baseline(m) ==
    [ objective_signals |->
        [ eye_contact_duration |->
            [ value |-> m.eye_contact_duration, baseline |-> eye_contact_baseline,
              status |-> IF m.eye_contact_duration <= eye_contact_baseline
                         THEN "below_baseline" ELSE "above_baseline" ],
          attention_shifts |->
            [ value |-> m.attention_shifts, baseline |-> attention_shifts_baseline,
              status |-> IF m.attention_shifts > attention_shifts_baseline
                         THEN "above_baseline" ELSE "below_baseline" ],
          gesture_frequency |->
            [ value |-> m.gesture_frequency, baseline |-> gesture_frequency_baseline,
              status |-> IF m.gesture_frequency <= gesture_frequency_baseline
                         THEN "below_baseline" ELSE "above_baseline" ],
          social_gaze |->
            [ value |-> m.social_gaze, baseline |-> social_gaze_baseline,
              status |-> IF m.social_gaze <= social_gaze_baseline
                         THEN "below_baseline" ELSE "above_baseline" ],
          response_latency |->
            [ value |-> m.response_latency, baseline |-> response_latency_baseline,
              status |-> IF m.response_latency > response_latency_baseline
                         THEN "above_baseline" ELSE "below_baseline" ] ],
      behavioral_indicators |->
        [ eye_gaze_patterns |-> TRUE, social_engagement |-> TRUE,
          environmental_response |-> TRUE, repetitive_behaviors |-> TRUE,
          communication_patterns |-> TRUE ] ]

\* Variant: the eye-gaze flag is a finding about the video.
to_dict_findings(m) ==
    [ objective_signals |->
        [ eye_contact_duration |->
            [ value |-> m.eye_contact_duration, baseline |-> eye_contact_baseline,
              status |-> IF m.eye_contact_duration < eye_contact_baseline
                         THEN "below_baseline" ELSE "above_baseline" ],
          attention_shifts |->
            [ value |-> m.attention_shifts, baseline |-> attention_shifts_baseline,
              status |-> IF m.attention_shifts > attention_shifts_baseline
                         THEN "above_baseline" ELSE "below_baseline" ],
          gesture_frequency |->
            [ value |-> m.gesture_frequency, baseline |-> gesture_frequency_baseline,
              status |-> IF m.gesture_frequency < gesture_frequency_baseline
                         THEN "below_baseline" ELSE "above_baseline" ],
          social_gaze |->
            [ value |-> m.social_gaze, baseline |-> social_gaze_baseline,
              status |-> IF m.social_gaze < social_gaze_baseline
                         THEN "below_baseline" ELSE "above_baseline" ],
          response_latency |->
            [ value |-> m.response_latency, baseline |-> response_latency_baseline,
              status |-> IF m.response_latency > response_latency_baseline
                         THEN "above_baseline" ELSE "below_baseline" ] ],
      behavioral_indicators |->
        [ eye_gaze_patterns |-> m.eye_contact_duration < eye_contact_baseline,
          social_engagement |-> TRUE,
          environmental_response |-> TRUE, repetitive_behaviors |-> TRUE,
          communication_patterns |-> TRUE ] ]

to_dict(m) ==
    [ objective_signals |->
        [ eye_contact_duration |->
            [ value |-> m.eye_contact_duration, baseline |-> eye_contact_baseline,
              status |-> IF m.eye_contact_duration < eye_contact_baseline
                         THEN "below_baseline" ELSE "above_baseline" ],
          attention_shifts |->
            [ value |-> m.attention_shifts, baseline |-> attention_shifts_baseline,
              status |-> IF m.attention_shifts > attention_shifts_baseline
                         THEN "above_baseline" ELSE "below_baseline" ],
          gesture_frequency |->
            [ value |-> m.gesture_frequency, baseline |-> gesture_frequency_baseline,
              status |-> IF m.gesture_frequency < gesture_frequency_baseline
                         THEN "below_baseline" ELSE "above_baseline" ],
          social_gaze |->
            [ value |-> m.social_gaze, baseline |-> social_gaze_baseline,
              status |-> IF m.social_gaze < social_gaze_baseline
                         THEN "below_baseline" ELSE "above_baseline" ],
          response_latency |->
            [ value |-> m.response_latency, baseline |-> response_latency_baseline,
              status |-> IF m.response_latency > response_latency_baseline
                         THEN "above_baseline" ELSE "below_baseline" ] ],
      behavioral_indicators |->
        [ eye_gaze_patterns |-> TRUE, social_engagement |-> TRUE,
          environmental_response |-> TRUE, repetitive_behaviors |-> TRUE,
          communication_patterns |-> TRUE ] ]

\* Variant: the report carries the level without the confidence.
build_report_partial(m) ==
    LET r == calculate_risk_score(m)
    IN  [ risk_assessment |-> [ level |-> r[1] ],
          metrics |-> to_dict(m) ]

build_report(m) ==
    LET r == calculate_risk_score(m)
    IN  [ risk_assessment |-> [ level |-> r[1], confidence |-> r[2] ],
          metrics |-> to_dict(m) ]

-----------------------------------------------------------------------------
(* AutismScreeningModel.__init__ and the locals of a caller that holds it *)

Init ==
    /\ pc = "idle"
    /\ fps = DefaultFps
    /\ frame_count = 0
    /\ previous_gaze = None
    /\ captured = 0
    /\ len_frames = 0
    /\ idx = 0
    /\ detections = <<>>
    /\ gazes = <<>>
    /\ signals = <<>>
    /\ eye_contact_frames = 0
    /\ attention_shifts = 0
    /\ gestures = 0
    /\ social_gaze_frames = 0
    /\ metrics = None
    /\ report = None
    /\ calls = 0
    /\ lastRun = None
    /\ error = None
    /\ results = <<>>
    /\ detectors = NewDetectors
    /\ files = {}
    /\ requests = <<>>
    /\ running = 0

-----------------------------------------------------------------------------
(* process_video *)

\* Variant: process_video goes on to the frame loop without the empty-input check.
PreprocessUnchecked(f, n) ==
    LET kept == SampledCount(n, FrameSkip(f))
    IN  /\ fps' = f
        /\ frame_count' = kept
        /\ captured' = n
        /\ len_frames' = kept
        /\ idx' = 0
        /\ detections' = <<>>
        /\ gazes' = <<>>
        /\ signals' = <<>>
        /\ eye_contact_frames' = 0
        /\ attention_shifts' = 0
        /\ gestures' = 0
        /\ social_gaze_frames' = 0
        /\ metrics' = None
        /\ report' = None
        /\ calls' = calls + 1
        /\ pc' = "frames"
        /\ error' = None
        /\ UNCHANGED results

\* preprocess_video, the empty-input check and the initialisation of the counters.
\* f: the capture's CAP_PROP_FPS; n: the frames the capture delivers.
Preprocess(f, n) ==
    LET kept == SampledCount(n, FrameSkip(f))
    IN  /\ fps' = f
        /\ frame_count' = kept
        /\ captured' = n
        /\ len_frames' = kept
        /\ idx' = 0
        /\ detections' = <<>>
        /\ gazes' = <<>>
        /\ signals' = <<>>
        /\ eye_contact_frames' = 0
        /\ attention_shifts' = 0
        /\ gestures' = 0
        /\ social_gaze_frames' = 0
        /\ metrics' = None
        /\ report' = None
        /\ calls' = calls + 1
        /\ pc' = IF kept = 0 THEN "failed" ELSE "frames"
        /\ error' = IF kept = 0 THEN "No frames could be extracted from video" ELSE None
        /\ UNCHANGED results

StartVideo ==
    /\ pc = "idle"
    /\ calls < MaxCalls
    /\ \E f \in FpsValues, n \in 0..MaxCaptured : Preprocess(f, n)
    /\ UNCHANGED previous_gaze
    /\ lastRun' = None
    /\ UNCHANGED env

\* Variant: the social-gaze counter is raised once per detected eye.
ProcessFramePerEye(det, left, right, u) ==
    LET lm == Landmarks(det, left, right)
        current_gaze == IF lm = None THEN None ELSE Gaze(lm)
        ec == lm # None /\ detect_eye_contact(lm)
        das == IF lm = None THEN << FALSE, previous_gaze >>
               ELSE detect_attention_shift(previous_gaze, current_gaze)
        sg == lm # None /\ calculate_social_gaze(lm)
        ge == MockGesture(u)
    IN  IF det.fault
        THEN /\ pc' = "failed"
             /\ error' = "cv2.error"
             /\ detections' = Append(detections, det)
             /\ UNCHANGED << fps, frame_count, previous_gaze, captured, len_frames,
                             idx, gazes, signals, eye_contact_frames,
                             attention_shifts, gestures, social_gaze_frames,
                             metrics, report, calls, lastRun, results, env >>
        ELSE /\ eye_contact_frames' = eye_contact_frames + B2N(ec)
             /\ attention_shifts' = attention_shifts + B2N(das[1])
             /\ previous_gaze' = das[2]
             /\ social_gaze_frames' =
                    social_gaze_frames + B2N(sg) * Max(1, Min(2, Len(det.eyes)))
             /\ gestures' = gestures + B2N(ge)
             /\ detections' = Append(detections, det)
             /\ gazes' = Append(gazes, current_gaze)
             /\ signals' = Append(signals,
                                  [ frame |-> preprocess_video(captured, fps)[idx + 1],
                                    eye_contact |-> ec, attention_shift |-> das[1],
                                    social_gaze |-> sg, gesture |-> ge ])
             /\ IF idx + 1 = len_frames
                THEN pc' = "latency" /\ idx' = 0
                ELSE pc' = "frames" /\ idx' = idx + 1
             /\ UNCHANGED << fps, frame_count, captured, len_frames, metrics,
                             report, calls, lastRun, error, results, env >>

\* One iteration of the frame loop of process_video.
\* det: the cascades' output; left, right, u: the random draws of the iteration.
ProcessFrame(det, left, right, u) ==
    LET lm == Landmarks(det, left, right)
        current_gaze == IF lm = None THEN None ELSE Gaze(lm)
        ec == lm # None /\ detect_eye_contact(lm)
        das == IF lm = None THEN << FALSE, previous_gaze >>
               ELSE detect_attention_shift(previous_gaze, current_gaze)
        sg == lm # None /\ calculate_social_gaze(lm)
        ge == MockGesture(u)
    IN  IF det.fault
        THEN \* the cv2.error leaves the loop and process_video: nothing catches it
             /\ pc' = "failed"
             /\ error' = "cv2.error"
             /\ detections' = Append(detections, det)
             /\ UNCHANGED << fps, frame_count, previous_gaze, captured, len_frames,
                             idx, gazes, signals, eye_contact_frames,
                             attention_shifts, gestures, social_gaze_frames,
                             metrics, report, calls, lastRun, results, env >>
        ELSE /\ eye_contact_frames' = eye_contact_frames + B2N(ec)
             /\ attention_shifts' = attention_shifts + B2N(das[1])
             /\ previous_gaze' = das[2]
             /\ social_gaze_frames' = social_gaze_frames + B2N(sg)
             /\ gestures' = gestures + B2N(ge)
             /\ detections' = Append(detections, det)
             /\ gazes' = Append(gazes, current_gaze)
             /\ signals' = Append(signals,
                                  [ frame |-> preprocess_video(captured, fps)[idx + 1],
                                    eye_contact |-> ec, attention_shift |-> das[1],
                                    social_gaze |-> sg, gesture |-> ge ])
             /\ IF idx + 1 = len_frames
                THEN pc' = "latency" /\ idx' = 0
                ELSE pc' = "frames" /\ idx' = idx + 1
             /\ UNCHANGED << fps, frame_count, captured, len_frames, metrics,
                             report, calls, lastRun, error, results, env >>

FrameStep ==
    /\ pc = "frames"
    /\ \E det \in (IF lastRun = None THEN FrameInputs
                   ELSE { lastRun.detections[idx + 1] }),
          left \in RandomIris, right \in RandomIris, u \in RandomUnit :
            ProcessFrame(det, left, right, u)

\* The metrics object built at the end of process_video.
MakeMetrics(response_latency) ==
    LET video_duration_minutes == VideoDuration(len_frames, fps)
    IN  BehavioralMetrics(
            Percentage(eye_contact_frames, len_frames),
            PerMinute(attention_shifts, video_duration_minutes),
            PerMinute(gestures, video_duration_minutes),
            Percentage(social_gaze_frames, len_frames),
            response_latency)

\* One iteration of the loop of calculate_response_latency, or its exit;
\* on return, process_video builds the metrics and returns them.
LatencyIteration(left, right) ==
    /\ IF idx >= LatencyWindow(len_frames, fps)
       THEN /\ metrics' = MakeMetrics(DefaultLatency)
            /\ pc' = "done"
            /\ idx' = idx
       ELSE IF detect_eye_contact(<< left, right >>)
       THEN /\ metrics' = MakeMetrics(LatencyAt(idx, fps))
            /\ pc' = "done"
            /\ idx' = idx
       ELSE /\ metrics' = metrics
            /\ pc' = "latency"
            /\ idx' = idx + 1
    /\ UNCHANGED << fps, frame_count, previous_gaze, captured, len_frames,
                    detections, gazes, signals, eye_contact_frames,
                    attention_shifts, gestures, social_gaze_frames, report,
                    calls, lastRun, error, results, env >>

LatencyStep ==
    /\ pc = "latency"
    /\ \E left \in RandomIris, right \in RandomIris : LatencyIteration(left, right)

\* The output_path arguments callers give (None: no file asked for).
OutputPaths == { None, << "out", "test_report.json" >> }

\* Variant: without output_path the report goes to a default file.
generate_report_default_file(output_path, quiet) ==
    /\ pc = "done"
    /\ report' = build_report(metrics)
    /\ files' = Write(files,
                      IF output_path # None THEN output_path
                      ELSE << "out", "screening_report.json" >>,
                      build_report(metrics))
    /\ pc' = "reported"
    /\ UNCHANGED << fps, frame_count, previous_gaze, captured, len_frames, idx,
                    detections, gazes, signals, eye_contact_frames,
                    attention_shifts, gestures, social_gaze_frames, metrics,
                    calls, lastRun, error, results, detectors, requests, running >>

\* generate_report: build_report, json.dump to output_path when one is given,
\* the printed summary unless quiet, and the report returned on both paths.
generate_report(output_path, quiet) ==
    /\ pc = "done"
    /\ LET built == build_report(metrics)
       IN  /\ files' = IF output_path # None
                       THEN Write(files, output_path, built)
                       ELSE files
           /\ report' = IF quiet THEN built ELSE built
    /\ pc' = "reported"
    /\ UNCHANGED << fps, frame_count, previous_gaze, captured, len_frames, idx,
                    detections, gazes, signals, eye_contact_frames,
                    attention_shifts, gestures, social_gaze_frames, metrics,
                    calls, lastRun, error, results, detectors, requests, running >>

\* Variant: scoring consumes the eye-contact value of the metrics object.
GenerateReportConsuming ==
    /\ pc = "done"
    /\ report' = build_report(metrics)
    /\ metrics' = [ metrics EXCEPT !.eye_contact_duration = 0 ]
    /\ pc' = "reported"
    /\ UNCHANGED << fps, frame_count, previous_gaze, captured, len_frames, idx,
                    detections, gazes, signals, eye_contact_frames,
                    attention_shifts, gestures, social_gaze_frames,
                    calls, lastRun, error, results, env >>

\* screen_video with save_report false: generate_report(metrics, output_path=None).
GenerateReport == generate_report(None, FALSE)

\* A script or test asks for the report, with or without a file, printing or not.
SaveReport ==
    \E output_path \in OutputPaths, quiet \in BOOLEAN :
        generate_report(output_path, quiet)

\* The locals of process_video and of its caller go away; the instance stays.
DropLocals ==
    /\ captured' = 0
    /\ len_frames' = 0
    /\ idx' = 0
    /\ detections' = <<>>
    /\ gazes' = <<>>
    /\ signals' = <<>>
    /\ eye_contact_frames' = 0
    /\ attention_shifts' = 0
    /\ gestures' = 0
    /\ social_gaze_frames' = 0
    /\ metrics' = None
    /\ report' = None
    /\ error' = None
    /\ UNCHANGED << fps, frame_count, previous_gaze, calls >>

\* The call is over (report delivered, or the ValueError reached the caller).
Return ==
    /\ pc \in { "reported", "failed" }
    /\ pc' = "idle"
    /\ DropLocals
    /\ lastRun' = None
    /\ UNCHANGED << results, env >>

Next == StartVideo \/ FrameStep \/ LatencyStep \/ GenerateReport \/ Return

Spec == Init /\ [][Next]_vars

-----------------------------------------------------------------------------
(* Running the same video a second time, as the command-line scripts do:    *)
(* each run constructs its own AutismScreeningModel and the capture gives   *)
(* the same frames, so the cascades give the same output.                   *)

\* The caller keeps what the run was given and what it returned.
KeepRun ==
    /\ pc = "reported"
    /\ lastRun = None
    /\ pc' = "idle"
    /\ lastRun' = [ fps |-> fps, captured |-> captured,
                    detections |-> detections, metrics |-> metrics,
                    gazes |-> gazes, attention_shifts |-> attention_shifts ]
    /\ DropLocals
    /\ UNCHANGED << results, env >>

\* A new instance (__init__) processes the kept video again.
RerunVideo ==
    /\ pc = "idle"
    /\ lastRun # None
    /\ calls < MaxCalls
    /\ Preprocess(lastRun.fps, lastRun.captured)
    /\ previous_gaze' = None
    /\ UNCHANGED << lastRun, env >>

NextReplay ==
    \/ StartVideo \/ FrameStep \/ LatencyStep \/ GenerateReport \/ Return
    \/ KeepRun \/ RerunVideo

SpecReplay == Init /\ [][NextReplay]_vars

-----------------------------------------------------------------------------
(* The server's shared screening_model receives the same video again, in a  *)
(* later request or later in a batch.                                       *)

RerunShared ==
    /\ pc = "idle"
    /\ lastRun # None
    /\ calls < MaxCalls
    /\ Preprocess(lastRun.fps, lastRun.captured)
    /\ UNCHANGED << previous_gaze, lastRun, env >>

NextShared ==
    \/ StartVideo \/ FrameStep \/ LatencyStep \/ GenerateReport \/ Return
    \/ KeepRun \/ RerunShared

SpecShared == Init /\ [][NextShared]_vars

-----------------------------------------------------------------------------
(* batch_screen: the uploads are handled one after the other with the       *)
(* shared screening_model; the k-th upload is named by its position k, and  *)
(* calls counts the uploads the loop has taken up.                          *)

\* The uploads a batch is made of: an unreadable file, a video whose only
\* frame makes the detector raise, a two-frame video with a face, and a video
\* at 25 fps without a face.
BatchUploads ==
    { [ fps |-> 0, captured |-> 0, detections |-> <<>> ],
      [ fps |-> 100, captured |-> 1, detections |-> << DetectorFault >> ],
      [ fps |-> 100, captured |-> 2,
        detections |-> << [face |-> TRUE, eyes |-> << <<100, 100>> >>, fault |-> FALSE],
                          [face |-> TRUE, eyes |-> << <<190, 190>>, <<190, 190>> >>,
                           fault |-> FALSE] >> ],
      [ fps |-> 250, captured |-> 2,
        detections |-> << [face |-> FALSE, eyes |-> <<>>, fault |-> FALSE] >> ] }

\* The upload is saved and process_video is called on it.
BatchStartVideo ==
    /\ pc = "idle"
    /\ calls < MaxCalls
    /\ \E v \in BatchUploads :
          /\ Preprocess(v.fps, v.captured)
          /\ lastRun' = v
    /\ files' = Write(files, << "temp", calls + 1 >>, calls + 1)
    /\ UNCHANGED << previous_gaze, detectors, requests, running >>

\* Writing temp_<filename> raises (OSError) before process_video is called;
\* the except clause appends an error entry and the loop goes on.
BatchSaveFails ==
    /\ pc = "idle"
    /\ calls < MaxCalls
    /\ calls' = calls + 1
    /\ results' = Append(results, [ filename |-> calls + 1, error |-> "OSError" ])
    /\ UNCHANGED << pc, fps, frame_count, previous_gaze, captured, len_frames, idx,
                    detections, gazes, signals, eye_contact_frames,
                    attention_shifts, gestures, social_gaze_frames, metrics,
                    report, lastRun, error, env >>

\* process_video returned: the entry of the upload is appended.
BatchAppend ==
    /\ pc = "done"
    /\ LET r == calculate_risk_score(metrics)
       IN  results' = Append(results, [ filename |-> calls, risk_level |-> r[1],
                                        confidence |-> r[2],
                                        metrics |-> to_dict(metrics) ])
    /\ pc' = "idle"
    /\ DropLocals
    /\ lastRun' = None
    /\ files' = Unlink(files, << "temp", calls >>)
    /\ UNCHANGED << detectors, requests, running >>

\* Variant: the exception leaves the loop of batch_screen.
BatchExceptAborts ==
    /\ pc = "failed"
    /\ pc' = "aborted"
    /\ UNCHANGED << fps, frame_count, previous_gaze, captured, len_frames, idx,
                    detections, gazes, signals, eye_contact_frames,
                    attention_shifts, gestures, social_gaze_frames, metrics,
                    report, calls, lastRun, error, results, env >>

\* process_video raised: the except clause appends an error entry.
BatchExcept ==
    /\ pc = "failed"
    /\ results' = Append(results, [ filename |-> calls, error |-> error ])
    /\ pc' = "idle"
    /\ DropLocals
    /\ lastRun' = None
    /\ files' = Unlink(files, << "temp", calls >>)
    /\ UNCHANGED << detectors, requests, running >>

NextBatch ==
    \/ BatchStartVideo \/ FrameStep \/ LatencyStep
    \/ BatchSaveFails \/ BatchAppend \/ BatchExcept

SpecBatch == Init /\ [][NextBatch]_vars

-----------------------------------------------------------------------------
(* The server: /api/screen and /api/metrics requests in flight at the same   *)
(* time.  uvicorn.run(app) runs one process with one event loop; a handler   *)
(* is a coroutine, and the loop runs nothing else between two of its awaits. *)
(* Neither handler has an await in its body.                                 *)

MaxRequests == 2

\* The filenames of the uploads.
Filenames == { "a.mp4", "b.mp4" }

NoRequest == [ filename |-> "", stage |-> "none", status |-> 0 ]

TempPath(r) == << "temp", requests[r].filename >>

InitServer ==
    /\ pc = "idle"
    /\ fps = DefaultFps
    /\ frame_count = 0
    /\ previous_gaze = None
    /\ captured = 0
    /\ len_frames = 0
    /\ idx = 0
    /\ detections = <<>>
    /\ gazes = <<>>
    /\ signals = <<>>
    /\ eye_contact_frames = 0
    /\ attention_shifts = 0
    /\ gestures = 0
    /\ social_gaze_frames = 0
    /\ metrics = None
    /\ report = None
    /\ calls = 0
    /\ lastRun = None
    /\ error = None
    /\ results = <<>>
    /\ detectors = NewDetectors
    /\ files = {}
    /\ requests = [ r \in 1..MaxRequests |-> NoRequest ]
    /\ running = 0

\* The upload of a request has been received and its handler is scheduled.
Receive(r) ==
    /\ requests[r].stage = "none"
    /\ \E name \in Filenames :
          requests' = [ requests EXCEPT ![r] =
                          [ filename |-> name, stage |-> "received", status |-> 0 ] ]
    /\ UNCHANGED << pc, fps, frame_count, previous_gaze, captured, len_frames, idx,
                    detections, gazes, signals, eye_contact_frames,
                    attention_shifts, gestures, social_gaze_frames, metrics,
                    report, calls, lastRun, error, results, detectors, files,
                    running >>

\* Variant: the handler gives the event loop back once process_video has begun.
HandlerStartYielding(r) ==
    /\ running = 0
    /\ requests[r].stage = "received"
    /\ running' = 0
    /\ files' = Write(files, TempPath(r), r)
    /\ \E v \in BatchUploads :
          /\ Preprocess(v.fps, v.captured)
          /\ lastRun' = v
    /\ requests' = [ requests EXCEPT ![r].stage = "processing" ]
    /\ UNCHANGED << previous_gaze, detectors >>

\* The event loop runs the handler: it saves the upload as temp_<filename>
\* and calls process_video on it.
HandlerStart(r) ==
    /\ running = 0
    /\ requests[r].stage = "received"
    /\ running' = r
    /\ files' = Write(files, TempPath(r), r)
    /\ \E v \in BatchUploads :
          /\ Preprocess(v.fps, v.captured)
          /\ lastRun' = v
    /\ requests' = [ requests EXCEPT ![r].stage = "processing" ]
    /\ UNCHANGED << previous_gaze, detectors >>

\* Variant: the temporary file is removed on the success path only.
HandlerFinishNoFinally(r) ==
    /\ running = r
    /\ requests[r].stage = "processing"
    /\ pc \in { "done", "failed" }
    /\ requests' = [ requests EXCEPT ![r].stage = "finished",
                                     ![r].status = IF pc = "done" THEN 200 ELSE 500 ]
    /\ files' = IF pc = "done" THEN Unlink(files, TempPath(r)) ELSE files
    /\ running' = 0
    /\ pc' = "idle"
    /\ DropLocals
    /\ lastRun' = None
    /\ UNCHANGED << results, detectors >>

\* process_video returned or raised: the handler answers with the content
\* (200) or with HTTPException 500, and its finally clause unlinks the
\* temporary file; the coroutine ends.
HandlerFinish(r) ==
    /\ running = r
    /\ requests[r].stage = "processing"
    /\ pc \in { "done", "failed" }
    /\ requests' = [ requests EXCEPT ![r].stage = "finished",
                                     ![r].status = IF pc = "done" THEN 200 ELSE 500 ]
    /\ files' = Unlink(files, TempPath(r))
    /\ running' = 0
    /\ pc' = "idle"
    /\ DropLocals
    /\ lastRun' = None
    /\ UNCHANGED << results, detectors >>

NextServer ==
    \/ \E r \in 1..MaxRequests : Receive(r)
    \/ \E r \in 1..MaxRequests : HandlerStart(r)
    \/ FrameStep
    \/ LatencyStep
    \/ \E r \in 1..MaxRequests : HandlerFinish(r)

SpecServer == InitServer /\ [][NextServer]_vars

-----------------------------------------------------------------------------
(* Scoring a BehavioralMetrics object that was constructed directly, as     *)
(* test_behavioral_metrics does.                                            *)

MetricsInputs ==
    { BehavioralMetrics(ec, as, gf, sg, rl) :
        ec \in {680, 749, 750}, as \in {80, 104, 105}, gf \in {41, 42, 60},
        sg \in {450, 599, 600}, rl \in {15, 22, 23} }

InitScore ==
    /\ pc = "done"
    /\ fps = DefaultFps
    /\ frame_count = 0
    /\ previous_gaze = None
    /\ captured = 0
    /\ len_frames = 0
    /\ idx = 0
    /\ detections = <<>>
    /\ gazes = <<>>
    /\ signals = <<>>
    /\ eye_contact_frames = 0
    /\ attention_shifts = 0
    /\ gestures = 0
    /\ social_gaze_frames = 0
    /\ metrics \in MetricsInputs
    /\ report = None
    /\ calls = 0
    /\ lastRun = None
    /\ error = None
    /\ results = <<>>
    /\ detectors = NewDetectors
    /\ files = {}
    /\ requests = <<>>
    /\ running = 0

NextScore == GenerateReport \/ SaveReport \/ Return

SpecScore == InitScore /\ [][NextScore]_vars

-----------------------------------------------------------------------------
(* One frame of a one-frame video on a new instance, with the two eyes the   *)
(* cascade reports placed so that the gaze point falls on, just inside and   *)
(* just outside the borders the classifiers compare with.                    *)

\* Horizontal eye centres: gaze x 0.4, 0.405, 0.5, 0.595, 0.6.
BorderX == { <<60, 100>>, <<62, 100>>, <<100, 100>>, <<138, 100>>, <<140, 100>> }

\* Vertical eye centres: gaze y 0.3, 0.305, 0.545, 0.55, 0.555, 0.695, 0.7.
BorderY ==
    { <<40, 80>>, <<42, 80>>, <<100, 118>>, <<100, 120>>, <<100, 122>>,
      <<120, 158>>, <<120, 160>> }

BorderFrames ==
    { [ face |-> TRUE, fault |-> FALSE,
        eyes |-> << <<x[1], y[1]>>, <<x[2], y[2]>> >> ] : x \in BorderX, y \in BorderY }
    \cup { [face |-> FALSE, eyes |-> <<>>, fault |-> FALSE],
           [face |-> TRUE, eyes |-> <<>>, fault |-> FALSE] }

\* process_video has loaded the single frame of a 10 fps video.
InitFrame ==
    /\ pc = "frames"
    /\ fps = 100
    /\ frame_count = 1
    /\ previous_gaze = None
    /\ captured = 1
    /\ len_frames = 1
    /\ idx = 0
    /\ detections = <<>>
    /\ gazes = <<>>
    /\ signals = <<>>
    /\ eye_contact_frames = 0
    /\ attention_shifts = 0
    /\ gestures = 0
    /\ social_gaze_frames = 0
    /\ metrics = None
    /\ report = None
    /\ calls = 1
    /\ lastRun = None
    /\ error = None
    /\ results = <<>>
    /\ detectors = NewDetectors
    /\ files = {}
    /\ requests = <<>>
    /\ running = 0

BorderFrameStep ==
    /\ pc = "frames"
    /\ \E det \in BorderFrames, left \in RandomIris, right \in RandomIris,
          u \in RandomUnit :
            ProcessFrame(det, left, right, u)

NextFrame == BorderFrameStep \/ LatencyStep

SpecFrame == InitFrame /\ [][NextFrame]_vars

-----------------------------------------------------------------------------
(* Properties *)

Reported == pc = "reported" /\ report # None

\* Squared Euclidean distance between two gaze points.
Dist2(a, b) == (a[1] - b[1]) * (a[1] - b[1]) + (a[2] - b[2]) * (a[2] - b[2])

\* The five risk predicates with their thresholds written out:
\* 75.0, 8.0*1.3 = 10.4, 6.0*0.7 = 4.2, 60.0, 1.5*1.5 = 2.25.
FactorSet(m) ==
    { i \in 1..5 :
        \/ i = 1 /\ m.eye_contact_duration < 750
        \/ i = 2 /\ m.attention_shifts > 104
        \/ i = 3 /\ m.gesture_frequency < 42
        \/ i = 4 /\ m.social_gaze < 600
        \/ i = 5 /\ m.response_latency * 10 > 225 }

\* C1: the reported level and confidence are decided by the number k of true
\* risk factors: k in {0,1} is Low Risk with 0.85, k = 2 is Medium Risk with
\* 0.75, k in {3,4,5} is High Risk with 0.80.
C1_RiskTable ==
    Reported =>
        LET k == Cardinality(FactorSet(metrics))
            ra == report.risk_assessment
        IN  /\ k \in {0, 1} => ra.level = "Low Risk" /\ ra.confidence = 85
            /\ k = 2 => ra.level = "Medium Risk" /\ ra.confidence = 75
            /\ k \in {3, 4, 5} => ra.level = "High Risk" /\ ra.confidence = 80

\* Exactly three factors have been scored High Risk with confidence 0.80.
C1_Witness ==
    /\ Reported
    /\ Cardinality(FactorSet(metrics)) = 3
    /\ report.risk_assessment = [ level |-> "High Risk", confidence |-> 80 ]

\* C2: the number of risk factors counted by calculate_risk_score is the number
\* of true predicates among the five strict comparisons; a metric equal to its
\* threshold is not counted.
C2_FactorCount ==
    metrics # None => RiskFactors(metrics) = Cardinality(FactorSet(metrics))

\* Scored metrics that sit exactly on the attention-shift and gesture thresholds
\* and on the two baselines, with no factor counted.
C2_Witness ==
    /\ Reported
    /\ metrics.eye_contact_duration = 750
    /\ metrics.attention_shifts = 104
    /\ metrics.gesture_frequency = 42
    /\ metrics.social_gaze = 600
    /\ RiskFactors(metrics) = 0
    /\ report.risk_assessment.level = "Low Risk"

\* C3: when process_video has loaded the frames and is about to visit the first
\* one, previous_gaze is None.
C3_GazeStateFresh ==
    (pc = "frames" /\ idx = 0) => previous_gaze = None

\* C4: a frame registers an attention shift iff a previous and a current gaze
\* point both exist and lie more than 0.15 apart; a frame with a gaze point and
\* no previous point sets the previous point.
C4_ShiftRule ==
    [][ (pc = "frames" /\ Len(signals') = Len(signals) + 1) =>
          LET g == gazes'[Len(gazes')]
              flagged == signals'[Len(signals')].attention_shift
          IN  /\ flagged <=> ( /\ previous_gaze # None
                               /\ g # None
                               /\ Dist2(previous_gaze, g) > 900 )
              /\ (previous_gaze = None /\ g # None) => previous_gaze' = g
      ]_vars

\* Gaze (0.5,0.5) then (0.8,0.8) on a new instance: a shift on the second frame only.
C4_Witness ==
    /\ Len(gazes) = 2
    /\ calls = 1
    /\ gazes[1] = <<100, 100>> /\ gazes[2] = <<160, 160>>
    /\ ~signals[1].attention_shift
    /\ signals[2].attention_shift
    /\ attention_shifts = 1

\* The gaze point of the last frame of a prefix that had one (None: no such frame).
RECURSIVE LastObserved(_)
LastObserved(gs) ==
    IF gs = <<>> THEN None
    ELSE IF gs[Len(gs)] # None THEN gs[Len(gs)]
    ELSE LastObserved(SubSeq(gs, 1, Len(gs) - 1))

\* C5: after any prefix of a video's frames, previous_gaze is the gaze point of
\* the most recent frame of the prefix that yielded one.
C5_PreviousIsLastObserved ==
    LastObserved(gazes) # None => previous_gaze = LastObserved(gazes)

\* Two gaze frames exactly 0.15 apart: no shift was flagged on the second, and
\* previous_gaze is the second gaze point all the same.
C5_Witness ==
    /\ Len(gazes) = 2
    /\ gazes[1] = <<100, 100>> /\ gazes[2] = <<118, 124>>
    /\ ~signals[2].attention_shift
    /\ previous_gaze = <<118, 124>>

\* C6: a processed video whose frames all yield the same gaze point has an
\* attention-shift count of 0.
C6_NoMovementNoShift ==
    ( /\ pc \in {"latency", "done", "reported"}
      /\ \A i \in 1..Len(gazes) : gazes[i] # None /\ gazes[i] = gazes[1] )
    => attention_shifts = 0

\* C7: a frame without the detector output a signal needs (no face, a face but
\* no eyes, no hand detector output) has that signal false.
C7_AbsenceIsNegative ==
    \A i \in 1..Len(signals) :
        /\ detections[i].eyes = <<>> =>
              /\ ~signals[i].eye_contact
              /\ ~signals[i].attention_shift
              /\ ~signals[i].social_gaze
        /\ ~signals[i].gesture

\* C8: a second run over the same frames with the same detector output returns
\* the same five metric values as the first.
C8_SameInputSameMetrics ==
    (pc = "done" /\ lastRun # None) => metrics = lastRun.metrics

\* The first visited frame, within the first 5 seconds (idx/fps < 5), whose
\* eye_contact signal is true (0-based; -1: none).
FirstEyeContact ==
    LET hits == { i \in 1..Len(signals) :
                    signals[i].eye_contact /\ (i - 1) * 10 < 5 * fps }
    IN  IF hits = {} THEN -1
        ELSE (CHOOSE i \in hits : \A j \in hits : i <= j) - 1

\* C9: response_latency is idx/fps of the first frame in the first 5 seconds
\* that the pipeline classified as eye contact, and 3.0 if there is none.
C9_LatencyFromPipeline ==
    pc = "done" =>
        metrics.response_latency =
            IF FirstEyeContact = -1 THEN 30
            ELSE RoundHalfEven(FirstEyeContact * 100, fps)

\* C10: for a video of N captured frames at fps > 0 the rate metrics are the
\* event counts divided by N/(fps*60) minutes.
C10_RatePerElapsedMinute ==
    (pc = "done" /\ fps > 0) =>
        /\ metrics.attention_shifts = RoundHalfEven(attention_shifts * 6 * fps * 10, captured)
        /\ metrics.gesture_frequency = RoundHalfEven(gestures * 6 * fps * 10, captured)

\* C11: a call of process_video on a source that yields no frame ends with the
\* ValueError before any frame is visited or counted, and neither a metrics
\* object nor a report exists for it.
C11_EmptyInputFails ==
    (pc # "idle" /\ calls > 0 /\ len_frames = 0) =>
        /\ pc = "failed"
        /\ error = "No frames could be extracted from video"
        /\ signals = <<>> /\ detections = <<>>
        /\ eye_contact_frames = 0 /\ attention_shifts = 0
        /\ gestures = 0 /\ social_gaze_frames = 0
        /\ metrics = None
        /\ report = None

\* A capture that delivered nothing has made process_video raise.
C11_Witness ==
    /\ pc = "failed"
    /\ calls > 0
    /\ captured = 0 /\ len_frames = 0
    /\ error = "No frames could be extracted from video"
    /\ metrics = None /\ report = None


\* C12: whatever the capture rate (zero and negative included), the duration a
\* finished video's rates were divided by is strictly positive, one millionth
\* of a minute when the rate is not positive, and both rate metrics are the
\* counts over that duration, hence never negative.
C12_RateDivisorPositive ==
    pc = "done" =>
        /\ len_frames > 0
        /\ metrics.attention_shifts >= 0
        /\ metrics.gesture_frequency >= 0
        /\ fps <= 0 =>
              /\ metrics.attention_shifts = attention_shifts * 1000000 * 10
              /\ metrics.gesture_frequency = gestures * 1000000 * 10
        /\ fps > 0 =>
              /\ metrics.attention_shifts =
                    RoundHalfEven(attention_shifts * 6 * fps * 10, len_frames)
              /\ metrics.gesture_frequency =
                    RoundHalfEven(gestures * 6 * fps * 10, len_frames)

\* A video with a negative capture rate finished with a gesture counted.
C12_Witness ==
    /\ pc = "done"
    /\ fps < 0
    /\ gestures > 0
    /\ metrics.gesture_frequency = gestures * 10000000


\* C13: a video with a capture rate that is not positive and at least one
\* frame finishes with response_latency 3.0.
C13_DefaultLatencyWithoutRate ==
    (pc = "done" /\ fps <= 0) => metrics.response_latency = DefaultLatency


\* C14: each visited frame adds at most 1 to the eye-contact counter and to the
\* social-gaze counter, so neither exceeds the number of processed frames, and
\* eye_contact_duration and social_gaze of a finished video lie in [0, 100].
C14_PercentagesInRange ==
    /\ eye_contact_frames = Cardinality({ i \in 1..Len(signals) : signals[i].eye_contact })
    /\ social_gaze_frames = Cardinality({ i \in 1..Len(signals) : signals[i].social_gaze })
    /\ Len(signals) <= len_frames
    /\ eye_contact_frames <= len_frames
    /\ social_gaze_frames <= len_frames
    /\ pc = "done" =>
          /\ 0 <= metrics.eye_contact_duration /\ metrics.eye_contact_duration <= 1000
          /\ 0 <= metrics.social_gaze /\ metrics.social_gaze <= 1000

\* Both frames of a two-frame video had eye contact and social gaze: 100.0 each.
C14_Witness ==
    /\ pc = "done"
    /\ len_frames = 2
    /\ eye_contact_frames = 2 /\ social_gaze_frames = 2
    /\ metrics.eye_contact_duration = 1000
    /\ metrics.social_gaze = 1000


\* C15: in a report the status of eye_contact_duration, gesture_frequency and
\* social_gaze is below_baseline iff the value is below 75.0, 6.0 and 60.0, and
\* the status of attention_shifts and response_latency is above_baseline iff
\* the value is above 8.0 and 1.5; every status is one of the two tags.
C15_StatusByStrictInequality ==
    Reported =>
        LET s == report.metrics.objective_signals
        IN  /\ \A k \in DOMAIN s : s[k].status \in { "below_baseline", "above_baseline" }
            /\ s.eye_contact_duration.status = "below_baseline"
                   <=> metrics.eye_contact_duration < 750
            /\ s.gesture_frequency.status = "below_baseline"
                   <=> metrics.gesture_frequency < 60
            /\ s.social_gaze.status = "below_baseline"
                   <=> metrics.social_gaze < 600
            /\ s.attention_shifts.status = "above_baseline"
                   <=> metrics.attention_shifts > 80
            /\ s.response_latency.status = "above_baseline"
                   <=> metrics.response_latency > 15

\* 225 eye-contact frames out of 300 are 75.0, and a report for metrics with
\* that value (and every other value on its baseline) tags eye contact
\* above_baseline, attention shifts and latency below_baseline.
C15_Witness ==
    /\ Reported
    /\ metrics.eye_contact_duration = Percentage(225, 300)
    /\ metrics = BehavioralMetrics(750, 80, 60, 600, 15)
    /\ report.metrics.objective_signals.eye_contact_duration.status = "above_baseline"
    /\ report.metrics.objective_signals.gesture_frequency.status = "above_baseline"
    /\ report.metrics.objective_signals.attention_shifts.status = "below_baseline"
    /\ report.metrics.objective_signals.response_latency.status = "below_baseline"


MetricNames ==
    { "eye_contact_duration", "attention_shifts", "gesture_frequency",
      "social_gaze", "response_latency" }

\* C16: a report, whenever one exists, has risk_assessment with level and
\* confidence, and metrics with behavioral_indicators and objective_signals
\* holding value, baseline and status of each of the five metrics; a finished
\* video gets one; a call that failed has a failure reason, no metrics and no
\* report.
C16_ReportCompleteOrNone ==
    /\ report # None =>
          /\ DOMAIN report = { "risk_assessment", "metrics" }
          /\ { "level", "confidence" } \subseteq DOMAIN report.risk_assessment
          /\ report.risk_assessment.level \in { "Low Risk", "Medium Risk", "High Risk" }
          /\ report.risk_assessment.confidence \in { 75, 80, 85 }
          /\ DOMAIN report.metrics = { "objective_signals", "behavioral_indicators" }
          /\ DOMAIN report.metrics.behavioral_indicators # {}
          /\ DOMAIN report.metrics.objective_signals = MetricNames
          /\ \A k \in MetricNames :
                /\ DOMAIN report.metrics.objective_signals[k] = { "value", "baseline", "status" }
                /\ report.metrics.objective_signals[k].value = metrics[k]
    /\ pc = "reported" => report # None
    /\ pc = "failed" =>
          /\ error \in { "No frames could be extracted from video", "cv2.error" }
          /\ metrics = None
          /\ report = None

\* A two-frame video was processed and its report holds its five values.
C16_Witness ==
    /\ Reported
    /\ len_frames = 2 /\ Len(signals) = 2
    /\ DOMAIN report.metrics.objective_signals = MetricNames
    /\ report.metrics.objective_signals.social_gaze.value = 1000
    /\ report.risk_assessment.confidence = 85


\* C17: batch_screen keeps one result entry per upload it has handled, the
\* k-th entry naming the k-th upload; an upload whose saving or processing
\* raised gets an error entry with the exception, an upload that was processed
\* gets its risk level, confidence and metrics, and in both cases the loop is
\* back at the point where it takes the next upload.
C17_BatchGoesOn ==
    [][ /\ Len(results') = (IF pc' = "idle" THEN calls' ELSE calls' - 1)
        /\ \A i \in 1..Len(results') :
              /\ results'[i].filename = i
              /\ \/ DOMAIN results'[i] = { "filename", "error" }
                 \/ DOMAIN results'[i] =
                        { "filename", "risk_level", "confidence", "metrics" }
        /\ pc = "failed" =>
              /\ results' = Append(results, [ filename |-> calls, error |-> error ])
              /\ pc' = "idle"
        /\ pc = "done" =>
              /\ Len(results') = Len(results) + 1
              /\ "metrics" \in DOMAIN results'[Len(results')]
              /\ pc' = "idle"
        /\ (pc = "idle" /\ pc' = "idle") =>
              results' = Append(results, [ filename |-> calls', error |-> "OSError" ])
      ]_vars

\* The first upload failed in process_video and the second was processed.
C17_Witness ==
    /\ Len(results) = 2
    /\ pc = "idle"
    /\ DOMAIN results[1] = { "filename", "error" }
    /\ results[1].error = "cv2.error"
    /\ DOMAIN results[2] = { "filename", "risk_level", "confidence", "metrics" }
    /\ results[2].filename = 2


\* C18: a video processed by the shared screening_model after other videos
\* gets the attention-shift count it got before: with the same gaze points in
\* its frames the count is the same.
C18_NoStateBetweenVideos ==
    (pc \in {"latency", "done"} /\ lastRun # None /\ gazes = lastRun.gazes)
        => attention_shifts = lastRun.attention_shifts


\* C19: a frame on which the detector raises does not end the video: the call
\* of process_video is not in its failed position after such a frame.
C19_DetectorFaultTolerated ==
    (\E i \in 1..Len(detections) : detections[i].fault) => pc # "failed"


C21_EyeContactBox ==
    \A i \in 1..Len(signals) :
        LET lm == IF detections[i].face /\ Len(detections[i].eyes) >= 2
                  THEN << << Clip(detections[i].eyes[1][1]), Clip(detections[i].eyes[1][2]) >>,
                          << Clip(detections[i].eyes[2][1]), Clip(detections[i].eyes[2][2]) >> >>
                  ELSE None
            g == gazes[i]
        IN  /\ lm # None =>
                  /\ 2 * g[1] = lm[1][1] + lm[2][1]
                  /\ 2 * g[2] = lm[1][2] + lm[2][2]
            /\ signals[i].eye_contact <=>
                  ( /\ g # None
                    /\ 80 < g[1] /\ g[1] < 120
                    /\ 60 < g[2] /\ g[2] < 140 )

\* A frame whose eyes at x 0.3 and 0.5 give the gaze point (0.4, 0.55), on the
\* left border of the box, was visited: no eye contact.
C21_Witness ==
    /\ Len(signals) = 1
    /\ detections[1].face
    /\ detections[1].eyes = << <<60, 100>>, <<100, 120>> >>
    /\ gazes[1] = <<80, 110>>
    /\ ~signals[1].eye_contact

\* C22: a visited frame has social gaze iff it has a gaze point whose y, the
\* mean of the two iris y values, is strictly below 0.55.
C22_SocialGazeBelow ==
    \A i \in 1..Len(signals) :
        /\ (detections[i].face /\ Len(detections[i].eyes) >= 2) =>
              2 * gazes[i][2] = Clip(detections[i].eyes[1][2]) + Clip(detections[i].eyes[2][2])
        /\ signals[i].social_gaze <=> (gazes[i] # None /\ gazes[i][2] < 110)
        /\ ~detections[i].face => gazes[i] = None /\ ~signals[i].social_gaze

\* A frame with mean iris height exactly 0.55 was visited: no social gaze.
C22_Witness ==
    /\ Len(signals) = 1
    /\ gazes[1] # None
    /\ gazes[1][2] = 110
    /\ ~signals[1].social_gaze


\* C23: whatever the metric values, the report's behavioral_indicators are the
\* five flags eye_gaze_patterns, social_engagement, environmental_response,
\* repetitive_behaviors and communication_patterns, each of them true.
C23_IndicatorsAlwaysTrue ==
    report # None =>
        LET b == report.metrics.behavioral_indicators
        IN  /\ DOMAIN b = { "eye_gaze_patterns", "social_engagement",
                            "environmental_response", "repetitive_behaviors",
                            "communication_patterns" }
            /\ \A k \in DOMAIN b : b[k] = TRUE

\* A High Risk report, with every metric on the adverse side, has the flags true.
C23_Witness ==
    /\ Reported
    /\ metrics = BehavioralMetrics(680, 105, 41, 450, 23)
    /\ report.risk_assessment.level = "High Risk"
    /\ report.metrics.behavioral_indicators.eye_gaze_patterns
    /\ report.metrics.behavioral_indicators.communication_patterns


\* C24: on a constructed AutismScreeningModel the face, pose and hand detector
\* components are initialized: none of them is None.
C24_DetectorsInitialized ==
    /\ detectors.face_landmarker # None
    /\ detectors.pose_detector # None
    /\ detectors.hands_detector # None


\* C25: visiting a frame in which no face is detected leaves previous_gaze,
\* eye_contact_frames, attention_shifts and social_gaze_frames as they were.
C25_NoFaceNoEffect ==
    [][ ( /\ pc = "frames"
          /\ Len(detections') = Len(detections) + 1
          /\ ~detections'[Len(detections')].face )
        => /\ previous_gaze' = previous_gaze
           /\ eye_contact_frames' = eye_contact_frames
           /\ attention_shifts' = attention_shifts
           /\ social_gaze_frames' = social_gaze_frames
      ]_vars

\* A frame with a face set previous_gaze and raised the eye-contact counter,
\* then a frame without a face was visited: both are as the first frame left them.
C25_Witness ==
    /\ Len(signals) = 2
    /\ detections[1].face /\ signals[1].eye_contact
    /\ ~detections[2].face /\ ~detections[2].fault
    /\ gazes[2] = None
    /\ previous_gaze = gazes[1]
    /\ eye_contact_frames = 1


\* C26: the step that assembles a report changes neither the metrics nor any
\* attribute of the model; the report returned is build_report of the metrics;
\* the files on disk are left as they were, or the report has been written to
\* the path the caller gave and nothing else has changed on disk.
C26_AssemblyHasNoSideEffect ==
    [][ (pc = "done" /\ pc' = "reported") =>
          /\ metrics' = metrics
          /\ << fps', frame_count', previous_gaze', detectors' >>
                 = << fps, frame_count, previous_gaze, detectors >>
          /\ report' = build_report(metrics)
          /\ \/ files' = files
             \/ \E p \in OutputPaths \ { None } :
                   files' = { f \in files : f.path # p }
                               \cup { [ path |-> p, content |-> report' ] }
      ]_vars

\* A report was asked for with output_path: the file holds the returned report.
C26_Witness ==
    /\ Reported
    /\ files = { [ path |-> << "out", "test_report.json" >>, content |-> report ] }
    /\ report = build_report(metrics)


\* The frame_skip of the claim: max(1, floor(fps / 10)).
SkipOf(f) == IF f \div 100 >= 1 THEN f \div 100 ELSE 1

\* C27: the frames process_video holds are exactly the captured frames whose
\* index is a multiple of max(1, floor(fps/10)); the i-th frame it visits is
\* the i-th of them in capture order, so frame 0 comes first and no frame is
\* visited twice; when the frame loop is over each of them has been visited.
C27_FramesInCaptureOrder ==
    LET keep == { k \in 0..(captured - 1) : k % SkipOf(fps) = 0 }
    IN  /\ len_frames = Cardinality(keep)
        /\ Len(signals) <= len_frames
        /\ \A i \in 1..Len(signals) :
              /\ signals[i].frame = (i - 1) * SkipOf(fps)
              /\ signals[i].frame \in keep
        /\ pc \in { "latency", "done", "reported" } =>
              { signals[i].frame : i \in 1..Len(signals) } = keep

\* Two frames captured at 25 fps: frame 0 was kept and visited, frame 1 skipped.
C27_Witness ==
    /\ pc = "latency"
    /\ fps = 250
    /\ captured = 2
    /\ len_frames = 1
    /\ Len(signals) = 1
    /\ signals[1].frame = 0


\* C28: once a handler has finished with a video, with a response or with an
\* error, the temporary file it wrote for the video is gone: no file is left
\* under the video's temp_<filename> (unless a request being handled right now
\* has written its own upload there), and between two handlers no temporary
\* file exists at all.
C28_TempFileRemoved ==
    /\ \A r \in DOMAIN requests :
          requests[r].stage = "finished" =>
              \A f \in files :
                  f.path = TempPath(r) =>
                      /\ f.content # r
                      /\ requests[f.content].stage = "processing"
    /\ pc = "idle" => \A f \in files : f.path[1] # "temp"

\* One request ended with an error and one with a response; no file is left.
C28_Witness ==
    /\ requests # <<>>
    /\ \E r \in DOMAIN requests :
          requests[r].stage = "finished" /\ requests[r].status = 500
    /\ \E r \in DOMAIN requests :
          requests[r].stage = "finished" /\ requests[r].status = 200
    /\ files = {}

\* C29: while a request's video is being processed, from the writing of its
\* temporary file to the end of its process_video call, the file is there
\* with the request's own upload in it, no other request is being processed,
\* and no other process_video call begins (which would write the shared
\* model's fps and previous_gaze): also when another request with the same
\* filename is in flight.
C29_NoInterferenceInFlight ==
    [][ \A r \in DOMAIN requests' :
          requests'[r].stage = "processing" =>
              /\ running' = r
              /\ [ path |-> << "temp", requests'[r].filename >>, content |-> r ] \in files'
              /\ \A q \in DOMAIN requests' :
                    requests'[q].stage = "processing" => q = r
              /\ requests[r].stage = "processing" =>
                    /\ fps' = fps
                    /\ calls' = calls
                    /\ files' = files
      ]_vars

\* Two requests with the same filename are in flight: the video of one is in
\* the frame loop, with its temporary file, while the other waits for the loop.
C29_Witness ==
    /\ requests # <<>>
    /\ \E r, q \in DOMAIN requests :
          /\ r # q
          /\ requests[r].filename = requests[q].filename
          /\ requests[r].stage = "processing"
          /\ requests[q].stage = "received"
          /\ pc = "frames" /\ Len(signals) = 1
          /\ [ path |-> TempPath(r), content |-> r ] \in files


\* Metrics for which calculate_risk_score counts no factor.
Favourable == BehavioralMetrics(1000, 0, 100, 1000, 0)

\* calculate_risk_score counts the factor of metric k for the value m has.
Counted(m, k) == RiskFactors([ Favourable EXCEPT ![k] = m[k] ]) = 1

\* The status that speaks against metric k.
Adverse(k) ==
    IF k \in { "attention_shifts", "response_latency" }
    THEN "above_baseline" ELSE "below_baseline"

\* C30: in a report, every metric whose risk factor calculate_risk_score
\* counts carries its adverse status (below_baseline for eye contact, gestures
\* and social gaze, above_baseline for attention shifts and latency); for
\* eye_contact_duration and social_gaze the factor is counted exactly when the
\* status is below_baseline; and the factors counted one by one add up to the
\* count the risk level is computed from.
C30_FactorsAgreeWithStatus ==
    Reported =>
        LET s == report.metrics.objective_signals
        IN  /\ \A k \in MetricNames : Counted(metrics, k) => s[k].status = Adverse(k)
            /\ \A k \in { "eye_contact_duration", "social_gaze" } :
                  Counted(metrics, k) <=> s[k].status = "below_baseline"
            /\ RiskFactors(metrics) =
                  Cardinality({ k \in MetricNames : Counted(metrics, k) })

\* Eye contact 74.9 is counted and tagged below_baseline, while attention
\* shifts at 10.4 are tagged above_baseline without being counted.
C30_Witness ==
    /\ Reported
    /\ metrics.eye_contact_duration = 749
    /\ Counted(metrics, "eye_contact_duration")
    /\ report.metrics.objective_signals.eye_contact_duration.status = "below_baseline"
    /\ metrics.attention_shifts = 104
    /\ ~Counted(metrics, "attention_shifts")
    /\ report.metrics.objective_signals.attention_shifts.status = "above_baseline"

====
